---- MODULE Spec2Model ----
(***************************************************************************)
(* DGHV-style one-bit integer encryption (src/main.py).                    *)
(*                                                                         *)
(* The program has no state of its own: DGHVParams is a plain object and   *)
(* encrypt / decrypt are module-level functions.  The state modelled here  *)
(* is the state of one session of a caller: the parameters object, the     *)
(* private key, the public key, the last ciphertext and the last recovered *)
(* bit, together with the random draws that produced them.                 *)
(***************************************************************************)
EXTENDS Integers, FiniteSets, Sequences, TLC

(* ------------------------------ bounds --------------------------------- *)

\* The two bit lengths the caller passes to DGHVParams total at most MaxBits.
MaxBits == 3

\* Caller-supplied private keys range over -MaxKey .. MaxKey.
MaxKey == 5

\* Caller-supplied raw ciphertexts range over -MaxCt .. MaxCt.
MaxCt == 4

\* Multiples of the private key added to a ciphertext range over
\* -MaxMult .. MaxMult.
MaxMult == 2

(* ------------------------- values and outcomes ------------------------- *)

None == [kind |-> "None"]

Return(v) == [kind |-> "return", value |-> v]

Raise(e) == [kind |-> "raise", exc |-> e]

Returned(o) == o.kind = "return"

(* --------------------------- Python integers --------------------------- *)

\* C remainder of two ints, truncated toward zero (sign of the dividend).
CRem(a, b) ==
    LET abs(x) == IF x < 0 THEN -x ELSE x
        m == abs(a) - abs(b) * (abs(a) \div abs(b))
    IN  IF a < 0 THEN -m ELSE m

PyModTruncating(a, b) == CRem(a, b)

\* Python's a % b on ints, b /= 0: the C remainder, moved by b when it is
\* non-zero and its sign differs from the divisor's (floor modulo).
PyMod(a, b) ==
    LET m == CRem(a, b)
    IN  IF m /= 0 /\ ((m < 0) /= (b < 0)) THEN m + b ELSE m

RandBelowInclusive(n) == 0 .. n

\* secrets.randbelow(n): the ints in [0, n).
RandBelow(n) == 0 .. (n - 1)

\* int.bit_length() of a non-negative int.
RECURSIVE BitLength(_)
BitLength(n) == IF n = 0 THEN 0 ELSE 1 + BitLength(n \div 2)

(* ------------------------------ DGHVParams ----------------------------- *)

\* DGHVParams.__init__(q_size, r_size): stores both sizes and the two
\* derived bounds.  It validates nothing and raises nothing.
DGHVParams(q_size, r_size) ==
    [kind      |-> "DGHVParams",
     q_size    |-> q_size,
     r_size    |-> r_size,
     largest_q |-> 2 ^ q_size,
     largest_r |-> 2 ^ r_size]

(* --------------------------- key generation ---------------------------- *)

\* Extra bits of the private key beyond key_bits + noise_bits.
SecurityMargin == 8

\* A positive odd integer.
ValidKey(p) == p > 0 /\ p % 2 = 1

\* generate_private_key(params): an odd p of bit length at least
\* q_size + r_size + SecurityMargin.  The candidates kept are the two
\* smallest and the largest odd p of the minimum bit length and the
\* smallest of the next one.
generate_private_key(params) ==
    LET L == params.q_size + params.r_size + SecurityMargin
    IN  {2 ^ (L - 1) + 1, 2 ^ (L - 1) + 3, 2 ^ L - 1, 2 ^ L + 1}

generate_public_keyUndoubledNoise(private_key, params, q0, r0) ==
    IF ~ValidKey(private_key)
    THEN Raise("InvalidParameters")
    ELSE [kind  |-> "return",
          value |-> private_key * q0 + r0,
          q0    |-> q0,
          r0    |-> r0]

\* generate_public_key(private_key, params) with the draws q0 and r0.
generate_public_key(private_key, params, q0, r0) ==
    IF ~ValidKey(private_key)
    THEN Raise("InvalidParameters")
    ELSE [kind  |-> "return",
          value |-> private_key * q0 + 2 * r0,
          q0    |-> q0,
          r0    |-> r0]

(* ------------------------------- Cipher -------------------------------- *)

encryptKeepingDraw(plaintext, public_key, params, r, q) ==
    [ret    |-> Return(public_key * q + 2 * r + plaintext),
     params |-> [params EXCEPT !.largest_r = r + 1]]

encryptUndoubledNoise(plaintext, public_key, params, r, q) ==
    [ret    |-> Return(public_key * q + r + plaintext),
     params |-> params]

\* encrypt(plaintext, public_key, params) with the draws r and q: the value
\* returned and the parameters object as the call leaves it.
encrypt(plaintext, public_key, params, r, q) ==
    [ret    |-> Return(public_key * q + 2 * r + plaintext),
     params |-> params]

decryptWithoutReduction(ciphertext, private_key, params) ==
    [ret    |-> IF private_key = 0
                THEN Raise("ZeroDivisionError")
                ELSE Return(PyMod(ciphertext, 2)),
     params |-> params]

\* decrypt(ciphertext, private_key, params): the value returned, or the
\* ZeroDivisionError of % by zero, and the parameters object as the call
\* leaves it.
decrypt(ciphertext, private_key, params) ==
    [ret    |-> IF private_key = 0
                THEN Raise("ZeroDivisionError")
                ELSE Return(PyMod(PyMod(ciphertext, private_key), 2)),
     params |-> params]

(* ------------------------------- state --------------------------------- *)

VARIABLES
    ctor,         \* the DGHVParams(...) call: positional arguments, outcome
    params,       \* the DGHVParams object
    private_key,  \* the private key the caller holds
    public_key,   \* outcome of generate_public_key, with its draws
    enc,          \* the encrypt call whose ciphertext the caller holds
    dec,          \* the last decrypt call: arguments, outcome
    lastOp        \* name of the operation that produced this state

vars == <<ctor, params, private_key, public_key, enc, dec, lastOp>>

\* The pairs of positional arguments the caller passes to DGHVParams.
Sizes == {s \in (0 .. MaxBits) \X (0 .. MaxBits) : s[1] + s[2] <= MaxBits}

\* Plaintext arguments the caller passes to encrypt: the two bits and two
\* integers that are not bits.
Plaintexts == {-1, 0, 1, 2}

SuppliedKeys == (-MaxKey) .. MaxKey

SuppliedCiphertexts == (-MaxCt) .. MaxCt

Init ==
    /\ ctor = None
    /\ params = None
    /\ private_key = None
    /\ public_key = None
    /\ enc = None
    /\ dec = None
    /\ lastOp = "init"

\* params = DGHVParams(a, b)
NewParams ==
    /\ params = None
    /\ \E s \in Sizes :
        /\ params' = DGHVParams(s[1], s[2])
        /\ ctor' = [kind |-> "call",
                    args |-> s,
                    out  |-> Return(DGHVParams(s[1], s[2]))]
    /\ lastOp' = "DGHVParams"
    /\ UNCHANGED <<private_key, public_key, enc, dec>>

\* private_key = generate_private_key(params)
GeneratePrivateKey ==
    /\ params /= None
    /\ private_key = None
    /\ \E p \in generate_private_key(params) : private_key' = Return(p)
    /\ lastOp' = "generate_private_key"
    /\ UNCHANGED <<ctor, params, public_key, enc, dec>>

\* The caller holds an integer of its own as the private key: encrypt and
\* decrypt take the keys as plain ints.
SupplyPrivateKey ==
    /\ params /= None
    /\ private_key = None
    /\ \E p \in SuppliedKeys : private_key' = Return(p)
    /\ lastOp' = "supply_private_key"
    /\ UNCHANGED <<ctor, params, public_key, enc, dec>>

\* public_key = generate_public_key(private_key, params)
GeneratePublicKey ==
    /\ private_key /= None
    /\ public_key = None
    /\ \E q0 \in RandBelow(params.largest_q), r0 \in RandBelow(params.largest_r) :
        public_key' = generate_public_key(private_key.value, params, q0, r0)
    /\ lastOp' = "generate_public_key"
    /\ UNCHANGED <<ctor, params, private_key, enc, dec>>

\* c = encrypt(plaintext, public_key, params)
Encrypt ==
    /\ Returned(public_key)
    /\ \E plaintext \in Plaintexts,
          r \in RandBelow(params.largest_r),
          q \in RandBelow(params.largest_q) :
        LET e == encrypt(plaintext, public_key.value, params, r, q)
        IN  /\ enc' = [kind       |-> "call",
                       plaintext  |-> plaintext,
                       public_key |-> public_key.value,
                       r          |-> r,
                       q          |-> q,
                       out        |-> e.ret]
            /\ params' = e.params
    /\ dec' = None
    /\ lastOp' = "encrypt"
    /\ UNCHANGED <<ctor, private_key, public_key>>

DecryptCall(c) ==
    LET d == decrypt(c, private_key.value, params)
    IN  /\ dec' = [kind        |-> "call",
                   ciphertext  |-> c,
                   private_key |-> private_key.value,
                   out         |-> d.ret]
        /\ params' = d.params
        /\ lastOp' = "decrypt"
        /\ UNCHANGED <<ctor, private_key, public_key>>

\* decrypt(c, private_key, params) of the ciphertext encrypt returned
DecryptCiphertext ==
    /\ enc /= None
    /\ Returned(enc.out)
    /\ DecryptCall(enc.out.value)
    /\ UNCHANGED enc

\* decrypt(c, private_key, params) of an integer the caller supplies in
\* place of the ciphertext it held
DecryptInteger ==
    /\ private_key /= None
    /\ \E c \in SuppliedCiphertexts : DecryptCall(c)
    /\ enc' = None

Next ==
    \/ NewParams
    \/ GeneratePrivateKey
    \/ SupplyPrivateKey
    \/ GeneratePublicKey
    \/ Encrypt
    \/ DecryptCiphertext
    \/ DecryptInteger

Spec == Init /\ [][Next]_vars

(* ------------------------- views of the state -------------------------- *)

\* The caller holds a ciphertext encrypt returned and has decrypted it.
RoundTrip == enc /= None /\ dec /= None /\ Returned(public_key)

\* The noise a ciphertext carries after reduction by the private key: the
\* public key's noise times the multiplier, plus the ciphertext's own.
AccumulatedNoise == 2 * public_key.r0 * enc.q + 2 * enc.r

Bits == {0, 1}

\* 1 <= noise_bits < key_bits
ValidSizes(noise_bits, key_bits) == 1 <= noise_bits /\ noise_bits < key_bits

\* The values c mod 2 takes over every draw of encrypt(bit, pk, params).
ParitySet(bit, pk, prm) ==
    {encrypt(bit, pk, prm, r, q).ret.value % 2 :
        r \in RandBelow(prm.largest_r), q \in RandBelow(prm.largest_q)}

(* ------------------------------- claims -------------------------------- *)

\* C1 as amended: for every odd private key p >= 3, every public key
\* pk = p*q0 + 2*r0 and every ciphertext c = pk*q + 2*r + bit of a bit in
\* {0, 1}, when the accumulated noise 2*r0*q + 2*r is strictly below p/2
\* (twice the noise is below p), decrypt(c, p) returns bit.
C1_DecryptRecoversBitBelowHalfKey ==
    (/\ RoundTrip
     /\ ValidKey(dec.private_key)
     /\ dec.private_key >= 3
     /\ enc.plaintext \in Bits
     /\ 2 * AccumulatedNoise < dec.private_key)
    => dec.out = Return(enc.plaintext)

\* C1 as stated: the same for every positive odd private key, p = 1
\* included.
C1_AsStated ==
    (/\ RoundTrip
     /\ ValidKey(dec.private_key)
     /\ enc.plaintext \in Bits
     /\ 2 * AccumulatedNoise < dec.private_key)
    => dec.out = Return(enc.plaintext)

\* C1 witness: bit 1 came back from a ciphertext with non-zero noise below
\* half of a key p >= 3.
C1_Witness ==
    /\ RoundTrip
    /\ ValidKey(dec.private_key)
    /\ dec.private_key >= 3
    /\ enc.plaintext = 1
    /\ AccumulatedNoise > 0
    /\ 2 * AccumulatedNoise < dec.private_key
    /\ dec.out = Return(1)

\* C2: round trip.  With valid parameters (1 <= noise_bits < key_bits, the
\* sizes read by role or by position), an odd private key of bit length at
\* least key_bits + noise_bits + SecurityMargin, a public key generated
\* from it and a bit in {0, 1}, decrypt(encrypt(bit, pk, params), p) is bit
\* for every draw of q and r.
C2_RoundTrip ==
    (/\ RoundTrip
     /\ \/ ValidSizes(params.r_size, params.q_size)
        \/ ValidSizes(ctor.args[1], ctor.args[2])
     /\ ValidKey(dec.private_key)
     /\ BitLength(dec.private_key)
            >= params.q_size + params.r_size + SecurityMargin
     /\ enc.plaintext \in Bits)
    => dec.out = Return(enc.plaintext)

\* C2 witness: a round trip of bit 1 under valid parameters and a key of
\* the required length, with every draw non-zero.
C2_Witness ==
    /\ RoundTrip
    /\ ValidSizes(params.r_size, params.q_size)
    /\ ValidKey(dec.private_key)
    /\ BitLength(dec.private_key)
           >= params.q_size + params.r_size + SecurityMargin
    /\ enc.plaintext = 1
    /\ public_key.q0 > 0 /\ public_key.r0 > 0 /\ enc.q > 0 /\ enc.r > 0
    /\ dec.out = Return(1)

\* C3 as stated: constructing Parameters(noise_bits, key_bits) fails with
\* InvalidParameters when noise_bits = 0, key_bits = 0 or
\* noise_bits >= key_bits, and no parameters object violating
\* 1 <= noise_bits < key_bits exists.
C3_InvalidParametersRejected ==
    ctor /= None =>
        /\ ~ValidSizes(ctor.args[1], ctor.args[2])
              => ctor.out = Raise("InvalidParameters")
        /\ params /= None => ValidSizes(ctor.args[1], ctor.args[2])

\* C4 as stated: encrypt fails with InvalidPlaintext for every plaintext
\* outside {0, 1} and returns a ciphertext only for 0 and 1.
C4_InvalidPlaintextRejected ==
    enc /= None =>
        /\ enc.plaintext \notin Bits => enc.out = Raise("InvalidPlaintext")
        /\ Returned(enc.out) => enc.plaintext \in Bits

\* C5 as stated: decrypt fails with InvalidKey for every private key that
\* is not a positive odd integer and never returns a bit for such a key.
C5_InvalidKeyRejected ==
    (dec /= None /\ ~ValidKey(dec.private_key))
    => dec.out = Raise("InvalidKey")

C7_PublicKeyShape ==
    public_key /= None =>
        LET p == private_key.value
        IN  IF ValidKey(p)
            THEN /\ Returned(public_key)
                 /\ public_key.value = p * public_key.q0 + 2 * public_key.r0
                 /\ public_key.q0 \in 0 .. (2 ^ params.q_size - 1)
                 /\ public_key.r0 \in 0 .. (2 ^ params.r_size - 1)
                 /\ public_key.value % p = (2 * public_key.r0) % p
                 /\ public_key.value % p < 2 * 2 ^ params.r_size
                 /\ p > 2 * public_key.r0 => (public_key.value % p) % 2 = 0
            ELSE public_key = Raise("InvalidParameters")

\* C7 as stated: the same, with pk mod p even for every positive odd p.
C7_AsStated ==
    public_key /= None =>
        LET p == private_key.value
        IN  IF ValidKey(p)
            THEN /\ Returned(public_key)
                 /\ public_key.value = p * public_key.q0 + 2 * public_key.r0
                 /\ public_key.q0 \in 0 .. (2 ^ params.q_size - 1)
                 /\ public_key.r0 \in 0 .. (2 ^ params.r_size - 1)
                 /\ public_key.value % p = (2 * public_key.r0) % p
                 /\ public_key.value % p < 2 * 2 ^ params.r_size
                 /\ (public_key.value % p) % 2 = 0
            ELSE public_key = Raise("InvalidParameters")

\* C7 witness: a public key with non-zero multiplier and non-zero noise
\* below half of its private key.
C7_Witness ==
    /\ Returned(public_key)
    /\ public_key.q0 > 0
    /\ public_key.r0 > 0
    /\ private_key.value > 2 * public_key.r0
    /\ public_key.value % private_key.value = 2 * public_key.r0

\* C8 as stated: for a fixed public key and parameters, the values c mod 2
\* takes over all draws of q and r are the same for encrypt(0, pk, params)
\* and encrypt(1, pk, params), so c mod 2 does not determine the bit.
C8_ParityIndependentOfBit ==
    Returned(public_key) =>
        ParitySet(0, public_key.value, params)
            = ParitySet(1, public_key.value, params)

\* C9: for a ciphertext of any sign and a positive odd private key p,
\* decrypt returns (c mod p) mod 2 with c mod p the non-negative residue in
\* [0, p): the result is 0 or 1 and is the same for c + k*p, any integer k.
C9_DecryptNonNegativeModulo ==
    (dec /= None /\ ValidKey(dec.private_key)) =>
        LET p == dec.private_key
            c == dec.ciphertext
        IN  /\ Returned(dec.out)
            /\ dec.out.value \in Bits
            /\ c % p \in 0 .. (p - 1)
            /\ dec.out.value = (c % p) % 2
            /\ \A k \in (-MaxMult) .. MaxMult :
                 decrypt(c + k * p, p, params).ret = dec.out

\* C9 witness: a negative ciphertext, not a multiple of the key, decrypted
\* to 1 under a positive odd key.
C9_Witness ==
    /\ dec /= None
    /\ ValidKey(dec.private_key)
    /\ dec.ciphertext < 0
    /\ dec.ciphertext % dec.private_key /= 0
    /\ dec.out = Return(1)

\* C10: no encrypt or decrypt call changes the parameters (bit lengths and
\* derived bounds), the private key or the public key, and the value a call
\* returns is determined by its own arguments and its own draws.
C10_CallsLeaveKeysAndParams ==
    [][lastOp' \in {"encrypt", "decrypt"} =>
         /\ params' = params
         /\ params' = ctor.out.value
         /\ private_key' = private_key
         /\ public_key' = public_key
         /\ lastOp' = "encrypt" =>
              enc'.out = Return(enc'.public_key * enc'.q + 2 * enc'.r
                                  + enc'.plaintext)
         /\ (lastOp' = "decrypt" /\ dec'.private_key > 0) =>
              dec'.out = Return((dec'.ciphertext % dec'.private_key) % 2)]_vars

\* C10 witness: a decrypt call that followed an encrypt call with a
\* non-zero noise draw left the parameters as constructed.
C10_Witness ==
    /\ lastOp = "decrypt"
    /\ RoundTrip
    /\ enc.r > 0
    /\ params = ctor.out.value
    /\ params.largest_r = 2 ^ params.r_size

====
